---- MODULE Spec2Model ----
(***************************************************************************)
(* Document lifecycle service of docapi: the service layer                 *)
(* (internal/service/document.go), the object store and PostgreSQL         *)
(* repository it drives, and the HTTP handlers in front of it.             *)
(*                                                                         *)
(* Each request is served by its own worker (goroutine); the workers share *)
(* the metadata table `rows` and the bucket `blobs` and interleave at      *)
(* every collaborator call.                                                *)
(***************************************************************************)
EXTENDS Integers, Sequences, FiniteSets, TLC

VARIABLES rows, blobs, nextUUID, clock, pc, req, loc, ctxDone, calls, res,
          uploads, faults, cancels, hist, mig

vars == <<rows, blobs, nextUUID, clock, pc, req, loc, ctxDone, calls, res,
          uploads, faults, cancels, hist, mig>>

(***************************************************************************)
(* Bounds of the model.                                                    *)
(***************************************************************************)
\* number of Upload calls that reach the service's key generation
MaxUploads == 1
\* number of collaborator failures injected in one behaviour
MaxFaults == 1
\* number of requests whose context is cancelled in one behaviour
MaxCancels == 1
\* number of startups of the process in one behaviour (SpecMigrate)
MaxRuns == 3
\* number of Upload calls in a sequence of calls none of which fails (SpecMany)
ManyUploads == 3

\* two requests are served at a time
Workers == {1, 2}
\* every Upload draws at most two UUIDs
MaxUUID == 2 * MaxUploads

(***************************************************************************)
(* Identifiers.  uuid.New() yields the positive numbers 1, 2, ... in the   *)
(* order drawn (fresh, never repeated).  Two more id strings reach the     *)
(* service and the handlers: the empty string and a string that is no      *)
(* UUID.  A request names a UUID drawn so far, or UUID 1, which is never   *)
(* the id of a document.                                                   *)
(***************************************************************************)
EmptyID == 0
BadID == -1
ReqIDs == (1..(nextUUID - 1)) \cup {1, EmptyID, BadID}

\* UuidParseOK that accepts every text
UuidParseOK_Any(id) == TRUE

\* uuid.Parse(id) succeeds
UuidParseOK(id) == id >= 1

(***************************************************************************)
(* Errors.  msg is the text of Error() as a sequence of parts; chain is    *)
(* the set of sentinel values errors.Is finds by unwrapping.               *)
(***************************************************************************)
NoErr == [msg |-> <<>>, chain |-> {}]
ErrIDRequired == [msg |-> <<"id is required">>, chain |-> {"ErrIDRequired"}]
ErrNotFound == [msg |-> <<"document not found">>, chain |-> {"ErrNotFound"}]
ErrReaderNil == [msg |-> <<"reader is nil">>, chain |-> {"ErrReaderNil"}]
sqlErrNoRows == [msg |-> <<"sql: no rows in result set">>, chain |-> {"sql.ErrNoRows"}]
ctxCanceled == [msg |-> <<"context canceled">>, chain |-> {"context.Canceled"}]
dbFail == [msg |-> <<"db fail">>, chain |-> {"driver"}]
dbUnique == [msg |-> <<"duplicate key value">>, chain |-> {"driver.unique"}]
storeFail == [msg |-> <<"storage fail">>, chain |-> {"minio"}]
\* PostgreSQL rejects a text that is no UUID where the id column is compared
dbInvalidUUID == [msg |-> <<"invalid input syntax for type uuid">>,
                  chain |-> {"driver.syntax"}]

\* errors.Is(err, target) for a sentinel target
ErrorsIs(err, target) == target.chain # {} /\ target.chain \subseteq err.chain

\* fmt.Errorf(prefix + "%w", err)
ErrorfW(prefix, err) == [msg |-> <<prefix>> \o err.msg, chain |-> err.chain]

\* fmt.Errorf(p1 + "%v" + p2 + "%v", e1, e2): the texts, nothing to unwrap
ErrorfVV(p1, e1, p2, e2) ==
    [msg |-> <<p1>> \o e1.msg \o <<p2>> \o e2.msg, chain |-> {}]

\* part occurs in the text of err
Mentions(err, part) ==
    \E i \in 1..Len(err.msg) :
        /\ i + Len(part) - 1 <= Len(err.msg)
        /\ SubSeq(err.msg, i, i + Len(part) - 1) = part

(***************************************************************************)
(* File names are sequences of characters.                                 *)
(***************************************************************************)
OrigNames == { <<"a", ".", "t">>, <<"n">> }
ContentTypes == { "text/plain" }
\* a reader is the number of bytes it yields; NilReader is the nil io.Reader
NilReader == -1
Readers == { NilReader, 5 }
\* the size the caller declares (-1: unknown)
DeclaredSizes == { -1, 5 }

RECURSIVE LastDot(_, _)
LastDot(name, i) ==
    IF i = 0 \/ name[i] = "/" THEN 0
    ELSE IF name[i] = "." THEN i
    ELSE LastDot(name, i - 1)

\* Ext that finds no extension
Ext_None(name) == <<>>

\* filepath.Ext: the suffix from the final dot of the final path element
Ext(name) ==
    LET i == LastDot(name, Len(name))
    IN  IF i = 0 THEN <<>> ELSE SubSeq(name, i, Len(name))

\* uuid.New().String() + ext
GenName(token, ext) == [token |-> token, ext |-> ext]

\* filepath.ToSlash(filepath.Join("documents", genName))
StorageKey(genName) == [dir |-> "documents", name |-> genName]

(***************************************************************************)
(* model.Document and storage.ObjectInfo.  A *model.Document is a set:     *)
(* {} is nil, {d} points at d.                                             *)
(***************************************************************************)
NoName == GenName(0, <<>>)
NoKey == [dir |-> "", name |-> NoName]
NoInfo == [Key |-> NoKey, Size |-> 0, ContentType |-> ""]

Document(id, filename, storagePath, size, contentType, createdAt) ==
    [id |-> id, filename |-> filename, storage_path |-> storagePath,
     size |-> size, content_type |-> contentType, created_at |-> createdAt]

(***************************************************************************)
(* Object store (minioStorage).  e is the transport error of the call      *)
(* (NoErr when the request goes through).                                  *)
(***************************************************************************)
\* StorePut that reports success before the object is in the bucket
StorePut_NotYetStored(b, key, reader, opt, e) ==
    IF e # NoErr
    THEN [blobs |-> b, info |-> NoInfo, err |-> e]
    ELSE [blobs |-> b,
          info |-> [Key |-> key, Size |-> reader, ContentType |-> opt.ContentType],
          err |-> NoErr]

\* PutObject, then the ObjectInfo built from the key and options passed in
StorePut(b, key, reader, opt, e) ==
    IF e # NoErr
    THEN [blobs |-> b, info |-> NoInfo, err |-> e]
    ELSE [blobs |-> b \cup {key},
          info |-> [Key |-> key, Size |-> reader, ContentType |-> opt.ContentType],
          err |-> NoErr]

\* StoreDelete that reports a key it does not hold as an error
StoreDelete_NoSuchKey(b, key, e) ==
    IF e # NoErr
    THEN [blobs |-> b, err |-> e]
    ELSE IF key \notin b
    THEN [blobs |-> b, err |-> storeFail]
    ELSE [blobs |-> b \ {key}, err |-> NoErr]

\* RemoveObject: removing a key that is absent succeeds
StoreDelete(b, key, e) ==
    IF e # NoErr
    THEN [blobs |-> b, err |-> e]
    ELSE [blobs |-> b \ {key}, err |-> NoErr]

(***************************************************************************)
(* Metadata repository (DocumentPostgres) over the documents table.        *)
(***************************************************************************)
\* RepoCreate whose INSERT commits although the call reports the error
RepoCreate_Commits(r, doc, e) ==
    IF \E d \in r : d.id = doc.id \/ d.storage_path = doc.storage_path
    THEN [rows |-> r, doc |-> {}, err |-> dbUnique]
    ELSE [rows |-> r \cup {doc}, doc |-> IF e # NoErr THEN {} ELSE {doc}, err |-> e]

\* INSERT ... RETURNING; id is the primary key, storage_path is UNIQUE
RepoCreate(r, doc, e) ==
    IF e # NoErr
    THEN [rows |-> r, doc |-> {}, err |-> e]
    ELSE IF \E d \in r : d.id = doc.id \/ d.storage_path = doc.storage_path
    THEN [rows |-> r, doc |-> {}, err |-> dbUnique]
    ELSE [rows |-> r \cup {doc}, doc |-> {doc}, err |-> NoErr]

\* SELECT ... WHERE id = $1; Scan yields sql.ErrNoRows when no row matches
RepoFindByID(r, id, e) ==
    IF e # NoErr
    THEN [doc |-> {}, err |-> e]
    ELSE IF ~UuidParseOK(id)
    THEN [doc |-> {}, err |-> dbInvalidUUID]
    ELSE IF \E d \in r : d.id = id
    THEN [doc |-> {d \in r : d.id = id}, err |-> NoErr]
    ELSE [doc |-> {}, err |-> sqlErrNoRows]

\* RepoDelete whose statement has lost its WHERE clause
RepoDelete_Truncates(r, id, e) ==
    IF e # NoErr
    THEN [rows |-> r, err |-> e]
    ELSE [rows |-> {}, err |-> NoErr]

\* RepoDelete that turns zero rows affected into an error
RepoDelete_RowsAffected(r, id, e) ==
    IF e # NoErr
    THEN [rows |-> r, err |-> e]
    ELSE IF ~UuidParseOK(id)
    THEN [rows |-> r, err |-> dbInvalidUUID]
    ELSE IF \A d \in r : d.id # id
    THEN [rows |-> r, err |-> sqlErrNoRows]
    ELSE [rows |-> {d \in r : d.id # id}, err |-> NoErr]

\* DELETE ... WHERE id = $1; the rows affected are ignored
RepoDelete(r, id, e) ==
    IF e # NoErr
    THEN [rows |-> r, err |-> e]
    ELSE IF ~UuidParseOK(id)
    THEN [rows |-> r, err |-> dbInvalidUUID]
    ELSE [rows |-> {d \in r : d.id # id}, err |-> NoErr]

\* SELECT COUNT(*) FROM documents
RepoCount(r, e) ==
    IF e # NoErr THEN [total |-> 0, err |-> e]
    ELSE [total |-> Cardinality(r), err |-> NoErr]

\* ORDER BY created_at DESC, id DESC
Before(a, b) ==
    \/ a.created_at > b.created_at
    \/ a.created_at = b.created_at /\ a.id > b.id

RECURSIVE Ordered(_)
Ordered(r) ==
    IF r = {} THEN <<>>
    ELSE LET first == CHOOSE a \in r : \A b \in r \ {a} : Before(a, b)
         IN  <<first>> \o Ordered(r \ {first})

Min(a, b) == IF a < b THEN a ELSE b

\* LIMIT $1 OFFSET $2
RepoPage(r, limit, offset, e) ==
    IF e # NoErr THEN [items |-> <<>>, err |-> e]
    ELSE LET all == Ordered(r)
         IN  [items |-> SubSeq(all, offset + 1, Min(Len(all), offset + limit)),
              err |-> NoErr]

(***************************************************************************)
(* Service layer: the pure parts of documentService.                       *)
(***************************************************************************)
DefaultLimit == 10

\* NormLimit with an upper bound on the page size
NormLimit_Capped(limit) == IF limit <= 0 THEN DefaultLimit ELSE Min(limit, 100)

\* List: limit <= 0 becomes 10, offset < 0 becomes 0
NormLimit(limit) == IF limit <= 0 THEN DefaultLimit ELSE limit
NormOffset(offset) == IF offset < 0 THEN 0 ELSE offset

\* UploadFailed formatted with %v: the cause cannot be unwrapped
UploadFailed_NotWrapped(err) == ErrorfVV("upload to storage: ", err, "", NoErr)

\* Upload, the put failed
UploadFailed(err) == ErrorfW("upload to storage: ", err)

\* Upload, the create failed and the blob was removed
MetadataPersistFailed(createErr) == ErrorfW("db save failed: ", createErr)

\* RollbackFailed that drops the error of the delete
RollbackFailed_Swallowed(createErr, delErr) == ErrorfW("db save failed: ", createErr)

\* Upload, the create failed and so did the removal of the blob
RollbackFailed(createErr, delErr) ==
    ErrorfVV("db save failed: ", createErr, "; rollback delete failed: ", delErr)

\* StorageDeleteFailed formatted with %v: the cause cannot be unwrapped
StorageDeleteFailed_NotWrapped(err) == ErrorfVV("delete storage: ", err, "", NoErr)

\* Delete, the store delete failed
StorageDeleteFailed(err) == ErrorfW("delete storage: ", err)

\* RollbackKey taken from an ObjectInfo that was never filled in
RollbackKey_Zero(key, info) == NoKey

\* the key Upload hands to store.Delete when it rolls back
RollbackKey(key, info) == key

\* NewDocument with the storage path derived from the document id instead
\* of taken from the store's answer
NewDocument_IdPath(id, genName, info, now) ==
    Document(id, genName, StorageKey(GenName(id, genName.ext)), info.Size,
             info.ContentType, now)

\* NewDocument that records the size as unknown instead of the size the
\* store reported
NewDocument_SizeUnknown(id, genName, info, now) ==
    Document(id, genName, info.Key, -1, info.ContentType, now)

\* NewDocument that takes the token of the generated filename as the id
NewDocument_TokenAsId(id, genName, info, now) ==
    Document(genName.token, genName, info.Key, info.Size, info.ContentType, now)

\* the Document Upload builds from what the store reported
NewDocument(id, genName, info, now) ==
    Document(id, genName, info.Key, info.Size, info.ContentType, now)

\* LookupErr that reports every failed lookup as not found
LookupErr_AllNotFound(err) == IF err # NoErr THEN ErrNotFound ELSE err

\* LookupErr that hands the repository's error on as it is
LookupErr_Passthrough(err) == err

\* ReaderMissing that lets the nil reader through
ReaderMissing_Never(reader) == FALSE

\* Upload: r == nil
ReaderMissing(reader) == reader = NilReader

\* IDMissing that lets every id through
IDMissing_Never(id) == FALSE

\* Get and Delete: id == ""
IDMissing(id) == id = EmptyID

\* Get and Delete: what the lookup's error becomes
LookupErr(err) == IF ErrorsIs(err, sqlErrNoRows) THEN ErrNotFound ELSE err

(***************************************************************************)
(* HTTP handlers: status and error code of the response.                   *)
(***************************************************************************)
\* a response without an error body
Response(status, code) == [status |-> status, code |-> code, message |-> ""]
NoResponse == Response(0, "")
\* writeError(c, status, code, message)
WriteError(status, code, message) ==
    [status |-> status, code |-> code, message |-> message]
InvalidID == WriteError(400, "INVALID_ID", "invalid id format")
FileRequired == WriteError(400, "FILE_REQUIRED", "file is required")
InternalError == WriteError(500, "INTERNAL_ERROR", "internal server error")
NotFound == WriteError(404, "NOT_FOUND", "document not found")

\* GetDocumentResponse that puts the text of the service error in the body
GetDocumentResponse_Leaks(err) ==
    IF err = NoErr THEN Response(200, "")
    ELSE IF ErrorsIs(err, sqlErrNoRows) THEN NotFound
    ELSE WriteError(500, "INTERNAL_ERROR", err.msg[1])

\* GetDocument after docSvc.Get returned err
GetDocumentResponse(err) ==
    IF err = NoErr THEN Response(200, "")
    ELSE IF ErrorsIs(err, sqlErrNoRows) THEN NotFound
    ELSE InternalError

\* DeleteDocument after docSvc.Delete returned err
DeleteDocumentResponse(err) ==
    IF err = NoErr THEN Response(204, "")
    ELSE IF ErrorsIs(err, sqlErrNoRows) THEN NotFound
    ELSE InternalError

\* UploadDocument after docSvc.Upload returned err
UploadDocumentResponse(err) ==
    IF err = NoErr THEN Response(201, "") ELSE InternalError

\* ListDocuments after docSvc.List returned err
ListDocumentsResponse(err) ==
    IF err = NoErr THEN Response(200, "") ELSE InternalError

\* UploadDocument: the content type of the part, or the default
PartContentType(ct) == IF ct = "" THEN "application/octet-stream" ELSE ct

(***************************************************************************)
(* Database migration at startup (migration.EnsureMigrated).  mig.schema   *)
(* is what the database holds, named by the step that creates it;          *)
(* mig.before is the schema the startup found, mig.ran the steps it has    *)
(* executed, mig.sentinel what the sentinel check answered.                *)
(***************************************************************************)
MigSteps ==
    << "create_extension_uuid_ossp", "create_table_documents",
       "create_index_documents_filename", "create_index_documents_content_type",
       "create_index_documents_created_at" >>

AllSteps == { MigSteps[i] : i \in 1..Len(MigSteps) }

\* SentinelExists that never finds the table
SentinelExists_Never(schema) == FALSE

\* SELECT to_regclass('public.documents') IS NOT NULL
SentinelExists(schema) == "create_table_documents" \in schema

\* CREATE ... IF NOT EXISTS
Applied(schema, step) == schema \cup {step}

SentinelCheckFailed(err) == ErrorfW("failed to check sentinel table: ", err)
StepFailed(name, err) ==
    [msg |-> <<"migration step ", name, " failed: ">> \o err.msg, chain |-> err.chain]

\* the database calls of a startup fail in these ways
MigFailures == { dbFail, ctxCanceled }

\* the process is not running and the database is empty
NoMig == [pc |-> "down", schema |-> {}, before |-> {}, next |-> 1, ran |-> <<>>,
          sentinel |-> "unknown", err |-> NoErr, runs |-> 0]
\* the process is serving: its startup found the schema in place
MigServing == [NoMig EXCEPT !.pc = "ok", !.schema = AllSteps, !.before = AllSteps,
                            !.sentinel = "present", !.runs = 1]

(***************************************************************************)
(* State of a worker: its request, the locals of the service method it     *)
(* runs, the collaborator calls it has made, and what it returned.         *)
(***************************************************************************)
\* the (limit, offset) pairs requested
ListInputs == { <<0, -5>>, <<10, 0>>, <<1, 1>>, <<500, 0>>, <<-1, 1>> }

NoReq == [op |-> "none", via |-> "svc", id |-> EmptyID, reader |-> NilReader,
          name |-> <<>>, ctype |-> "", size |-> 0, limit |-> 0, offset |-> 0]
NoLoc == [genName |-> NoName, key |-> NoKey, info |-> NoInfo, doc |-> {},
          createErr |-> NoErr, limit |-> 0, offset |-> 0, total |-> 0,
          afterDelete |-> FALSE, afterStoreFail |-> FALSE,
          afterRowKept |-> FALSE]
NoRes == [invoked |-> TRUE, doc |-> {}, err |-> NoErr, items |-> <<>>,
          total |-> 0, http |-> NoResponse]
\* the handler answered without calling the service
NotInvoked == [NoRes EXCEPT !.invoked = FALSE]

\* a collaborator call: its arguments, the transport error it met (NoErr:
\* the request went through) and the error it returned
Call(fn, key, id, transport, err) ==
    [fn |-> fn, key |-> key, id |-> id, transport |-> transport, err |-> err]

Init ==
    /\ rows = {}
    /\ blobs = {}
    /\ nextUUID = 1
    /\ clock = 0
    /\ pc = [p \in Workers |-> "idle"]
    /\ req = [p \in Workers |-> NoReq]
    /\ loc = [p \in Workers |-> NoLoc]
    /\ ctxDone = [p \in Workers |-> FALSE]
    /\ calls = [p \in Workers |-> <<>>]
    /\ res = [p \in Workers |-> NoRes]
    /\ uploads = 0
    /\ faults = 0
    /\ cancels = 0
    /\ hist = [deletedOK |-> {}, blobGoneRowKept |-> {},
               rollbackFailed |-> {}, persistFailed |-> {},
               storeDeleteFailed |-> {}]
    /\ mig = MigServing

\* a collaborator call may fail while the fault budget lasts
FaultChoices == IF faults < MaxFaults THEN {FALSE, TRUE} ELSE {FALSE}

\* the transport error of a call made by p with the request's context:
\* a cancelled context fails the call, as does an injected fault
CallErr(p, fault, failure) ==
    IF ctxDone[p] THEN ctxCanceled
    ELSE IF fault THEN failure
    ELSE NoErr

Faulted(p, fault) == IF fault /\ ~ctxDone[p] THEN faults + 1 ELSE faults

\* Finish that, when a collaborator call failed, has the service make the
\* call again (up to three calls) instead of returning
Finish_Retrying(p, via, r, response) ==
    /\ pc' = [pc EXCEPT ![p] =
                 IF r.err # NoErr /\ pc[p] # "idle" /\ Len(calls'[p]) < 3
                 THEN pc[p] ELSE "done"]
    /\ res' = [res EXCEPT ![p] =
                  IF pc'[p] = "done"
                  THEN [r EXCEPT !.http = IF via = "http" THEN response
                                         ELSE NoResponse]
                  ELSE res[p]]

\* the service returned r to p: the handler, if any, shapes the response
Finish(p, via, r, response) ==
    /\ pc' = [pc EXCEPT ![p] = "done"]
    /\ res' = [res EXCEPT ![p] =
                  [r EXCEPT !.http = IF via = "http" THEN response
                                     ELSE NoResponse]]

Vias == { "svc", "http" }
Only(set) == CHOOSE x \in set : TRUE
Logged(p, c) == calls' = [calls EXCEPT ![p] = Append(@, c)]


\* time.Now(): clock is the last time read (0: none yet); the clock has
\* moved on since, or it stands and the same time is read again
Nows == {clock + 1} \cup ({clock} \ {0})

(***************************************************************************)
(* Upload (POST /documents, or documentService.Upload called directly).    *)
(***************************************************************************)
\* the arguments the service receives
SvcContentType(r) == IF r.via = "http" THEN PartContentType(r.ctype) ELSE r.ctype
PutOptions(r) ==
    [Size |-> r.size, ContentType |-> SvcContentType(r),
     Metadata |-> [original_filename |-> r.name]]

\* handler up to the service call, then Upload up to the put
UploadStart(p) ==
    /\ pc[p] = "idle"
    /\ \E via \in Vias, reader \in Readers, name \in OrigNames,
          ct \in ContentTypes, size \in DeclaredSizes :
        /\ via = "http" => size = reader
        /\ via = "svc" => size # reader \/ reader = NilReader
        /\ req' = [req EXCEPT ![p] =
                      [NoReq EXCEPT !.op = "Upload", !.via = via, !.reader = reader,
                                    !.name = name, !.ctype = ct, !.size = size]]
        /\ IF via = "http" /\ reader = NilReader
           THEN /\ Finish(p, via, NotInvoked, FileRequired)
                /\ UNCHANGED <<loc, nextUUID, uploads>>
           ELSE IF ReaderMissing(reader)
           THEN /\ Finish(p, via, [NoRes EXCEPT !.err = ErrReaderNil], InternalError)
                /\ UNCHANGED <<loc, nextUUID, uploads>>
           ELSE /\ uploads < MaxUploads
                /\ loc' = [loc EXCEPT ![p] =
                              [NoLoc EXCEPT !.genName = GenName(nextUUID, Ext(name)),
                                            !.key = StorageKey(GenName(nextUUID, Ext(name)))]]
                /\ nextUUID' = nextUUID + 1
                /\ uploads' = uploads + 1
                /\ pc' = [pc EXCEPT ![p] = "up_put"]
                /\ UNCHANGED res
    /\ UNCHANGED <<mig, rows, blobs, clock, ctxDone, calls, faults, cancels, hist>>

\* s.store.Put, then the Document is built
UploadPut(p) ==
    /\ pc[p] = "up_put"
    /\ \E fault \in FaultChoices :
        LET out == StorePut(blobs, loc[p].key, req[p].reader, PutOptions(req[p]),
                            CallErr(p, fault, storeFail))
        IN  /\ blobs' = out.blobs
            /\ faults' = Faulted(p, fault)
            /\ Logged(p, Call("store.Put", loc[p].key, EmptyID,
                             CallErr(p, fault, storeFail), out.err))
            /\ IF out.err # NoErr
               THEN /\ Finish(p, req[p].via,
                              [NoRes EXCEPT !.err = UploadFailed(out.err)],
                              UploadDocumentResponse(UploadFailed(out.err)))
                    /\ UNCHANGED <<loc, nextUUID, clock>>
               ELSE \E now \in Nows :
                    /\ loc' = [loc EXCEPT ![p].info = out.info,
                                          ![p].doc = {NewDocument(nextUUID, loc[p].genName,
                                                                  out.info, now)}]
                    /\ nextUUID' = nextUUID + 1
                    /\ clock' = now
                    /\ pc' = [pc EXCEPT ![p] = "up_create"]
                    /\ UNCHANGED res
    /\ UNCHANGED <<mig, rows, req, ctxDone, hist, uploads, cancels>>

\* s.repo.Create
UploadCreate(p) ==
    /\ pc[p] = "up_create"
    /\ \E fault \in FaultChoices :
        LET doc == Only(loc[p].doc)
            out == RepoCreate(rows, doc, CallErr(p, fault, dbFail))
        IN  /\ rows' = out.rows
            /\ faults' = Faulted(p, fault)
            /\ Logged(p, Call("repo.Create", doc.storage_path, doc.id,
                             CallErr(p, fault, dbFail), out.err))
            /\ IF out.err # NoErr
               THEN /\ loc' = [loc EXCEPT ![p].createErr = out.err]
                    /\ pc' = [pc EXCEPT ![p] = "up_rollback"]
                    /\ UNCHANGED res
               ELSE /\ Finish(p, req[p].via, [NoRes EXCEPT !.doc = out.doc],
                              UploadDocumentResponse(NoErr))
                    /\ UNCHANGED loc
    /\ UNCHANGED <<mig, blobs, nextUUID, clock, req, ctxDone, hist, uploads, cancels>>

\* the rollback: s.store.Delete(ctx, key) with the context of the request
UploadRollback(p) ==
    /\ pc[p] = "up_rollback"
    /\ \E fault \in FaultChoices :
        LET key == RollbackKey(loc[p].key, loc[p].info)
            out == StoreDelete(blobs, key, CallErr(p, fault, storeFail))
            err == IF out.err # NoErr
                   THEN RollbackFailed(loc[p].createErr, out.err)
                   ELSE MetadataPersistFailed(loc[p].createErr)
        IN  /\ blobs' = out.blobs
            /\ faults' = Faulted(p, fault)
            /\ Logged(p, Call("store.Delete", key, EmptyID,
                             CallErr(p, fault, storeFail), out.err))
            /\ Finish(p, req[p].via, [NoRes EXCEPT !.err = err],
                      UploadDocumentResponse(err))
            /\ hist' = IF out.err # NoErr
                       THEN [hist EXCEPT !.rollbackFailed = @ \cup {loc[p].key}]
                       ELSE [hist EXCEPT !.persistFailed = @ \cup loc[p].doc]
    /\ UNCHANGED <<mig, rows, nextUUID, clock, req, loc, ctxDone, uploads, cancels>>

(***************************************************************************)
(* List (GET /documents).                                                  *)
(***************************************************************************)
ListStart(p) ==
    /\ pc[p] = "idle"
    /\ \E in \in ListInputs :
        /\ req' = [req EXCEPT ![p] =
                      [NoReq EXCEPT !.op = "List", !.via = "http",
                                    !.limit = in[1], !.offset = in[2]]]
        /\ loc' = [loc EXCEPT ![p] =
                      [NoLoc EXCEPT !.limit = NormLimit(in[1]),
                                    !.offset = NormOffset(in[2])]]
    /\ pc' = [pc EXCEPT ![p] = "list_count"]
    /\ UNCHANGED <<mig, rows, blobs, nextUUID, clock, ctxDone, calls, res, faults, hist, uploads, cancels>>

\* s.repo.List: the count query
ListCount(p) ==
    /\ pc[p] = "list_count"
    /\ \E fault \in FaultChoices :
        LET out == RepoCount(rows, CallErr(p, fault, dbFail))
        IN  /\ faults' = Faulted(p, fault)
            /\ IF out.err # NoErr
               THEN /\ Logged(p, Call("repo.List", NoKey, EmptyID,
                             CallErr(p, fault, dbFail), out.err))
                    /\ Finish(p, req[p].via, [NoRes EXCEPT !.err = out.err],
                              ListDocumentsResponse(out.err))
                    /\ UNCHANGED loc
               ELSE /\ loc' = [loc EXCEPT ![p].total = out.total]
                    /\ pc' = [pc EXCEPT ![p] = "list_page"]
                    /\ UNCHANGED <<calls, res>>
    /\ UNCHANGED <<mig, rows, blobs, nextUUID, clock, req, ctxDone, hist, uploads, cancels>>

\* s.repo.List: the page query, and the result
ListPage(p) ==
    /\ pc[p] = "list_page"
    /\ \E fault \in FaultChoices :
        LET out == RepoPage(rows, loc[p].limit, loc[p].offset,
                            CallErr(p, fault, dbFail))
        IN  /\ faults' = Faulted(p, fault)
            /\ Logged(p, Call("repo.List", NoKey, EmptyID,
                             CallErr(p, fault, dbFail), out.err))
            /\ IF out.err # NoErr
               THEN /\ Finish(p, req[p].via, [NoRes EXCEPT !.err = out.err],
                              ListDocumentsResponse(out.err))
               ELSE Finish(p, req[p].via,
                           [NoRes EXCEPT !.items = out.items, !.total = loc[p].total],
                           ListDocumentsResponse(NoErr))
    /\ UNCHANGED <<mig, rows, blobs, nextUUID, clock, req, loc, ctxDone, hist, uploads, cancels>>

(***************************************************************************)
(* Get (GET /documents/:id).                                               *)
(***************************************************************************)
GetStart(p) ==
    /\ pc[p] = "idle"
    /\ \E via \in Vias, id \in ReqIDs :
        /\ via = "svc" => ~UuidParseOK(id)
        /\ req' = [req EXCEPT ![p] = [NoReq EXCEPT !.op = "Get", !.via = via, !.id = id]]
        /\ IF via = "http" /\ ~UuidParseOK(id)
           THEN /\ Finish(p, via, NotInvoked, InvalidID)
                /\ UNCHANGED loc
           ELSE IF IDMissing(id)
           THEN /\ Finish(p, via, [NoRes EXCEPT !.err = ErrIDRequired],
                          GetDocumentResponse(ErrIDRequired))
                /\ UNCHANGED loc
           ELSE /\ loc' = [loc EXCEPT ![p] =
                              [NoLoc EXCEPT !.afterDelete = (id \in hist.deletedOK)]]
                /\ pc' = [pc EXCEPT ![p] = "get_find"]
                /\ UNCHANGED res
    /\ UNCHANGED <<mig, rows, blobs, nextUUID, clock, ctxDone, calls, faults, hist, uploads, cancels>>

\* GetFind whose lookup takes the row out of the table
GetFind_Consumes(p) ==
    /\ pc[p] = "get_find"
    /\ \E fault \in FaultChoices :
        LET out == RepoFindByID(rows, req[p].id, CallErr(p, fault, dbFail))
            err == LookupErr(out.err)
        IN  /\ faults' = Faulted(p, fault)
            /\ rows' = rows \ out.doc
            /\ Logged(p, Call("repo.FindByID", NoKey, req[p].id,
                             CallErr(p, fault, dbFail), out.err))
            /\ IF out.err # NoErr
               THEN Finish(p, req[p].via, [NoRes EXCEPT !.err = err],
                           GetDocumentResponse(err))
               ELSE Finish(p, req[p].via, [NoRes EXCEPT !.doc = out.doc],
                           GetDocumentResponse(NoErr))
    /\ UNCHANGED <<mig, blobs, nextUUID, clock, req, loc, ctxDone, hist, uploads, cancels>>

\* s.repo.FindByID, and the result
GetFind(p) ==
    /\ pc[p] = "get_find"
    /\ \E fault \in FaultChoices :
        LET out == RepoFindByID(rows, req[p].id, CallErr(p, fault, dbFail))
            err == LookupErr(out.err)
        IN  /\ faults' = Faulted(p, fault)
            /\ Logged(p, Call("repo.FindByID", NoKey, req[p].id,
                             CallErr(p, fault, dbFail), out.err))
            /\ IF out.err # NoErr
               THEN Finish(p, req[p].via, [NoRes EXCEPT !.err = err],
                           GetDocumentResponse(err))
               ELSE Finish(p, req[p].via, [NoRes EXCEPT !.doc = out.doc],
                           GetDocumentResponse(NoErr))
    /\ UNCHANGED <<mig, rows, blobs, nextUUID, clock, req, loc, ctxDone, hist, uploads, cancels>>

(***************************************************************************)
(* Delete (DELETE /documents/:id).                                         *)
(***************************************************************************)
DeleteStart(p) ==
    /\ pc[p] = "idle"
    /\ \E via \in Vias, id \in ReqIDs :
        /\ via = "svc" => ~UuidParseOK(id)
        /\ req' = [req EXCEPT ![p] = [NoReq EXCEPT !.op = "Delete", !.via = via, !.id = id]]
        /\ IF via = "http" /\ ~UuidParseOK(id)
           THEN /\ Finish(p, via, NotInvoked, InvalidID)
                /\ UNCHANGED loc
           ELSE IF IDMissing(id)
           THEN /\ Finish(p, via, [NoRes EXCEPT !.err = ErrIDRequired],
                          DeleteDocumentResponse(ErrIDRequired))
                /\ UNCHANGED loc
           ELSE /\ loc' = [loc EXCEPT ![p] =
                              [NoLoc EXCEPT !.afterDelete = (id \in hist.deletedOK),
                                            !.afterStoreFail =
                                                (id \in hist.storeDeleteFailed),
                                            !.afterRowKept =
                                                (id \in hist.blobGoneRowKept)]]
                /\ pc' = [pc EXCEPT ![p] = "del_find"]
                /\ UNCHANGED res
    /\ UNCHANGED <<mig, rows, blobs, nextUUID, clock, ctxDone, calls, faults, hist, uploads, cancels>>

\* s.repo.FindByID
DeleteFind(p) ==
    /\ pc[p] = "del_find"
    /\ \E fault \in FaultChoices :
        LET out == RepoFindByID(rows, req[p].id, CallErr(p, fault, dbFail))
            err == LookupErr(out.err)
        IN  /\ faults' = Faulted(p, fault)
            /\ Logged(p, Call("repo.FindByID", NoKey, req[p].id,
                             CallErr(p, fault, dbFail), out.err))
            /\ IF out.err # NoErr
               THEN /\ Finish(p, req[p].via, [NoRes EXCEPT !.err = err],
                              DeleteDocumentResponse(err))
                    /\ UNCHANGED loc
               ELSE /\ loc' = [loc EXCEPT ![p].doc = out.doc]
                    /\ pc' = [pc EXCEPT ![p] = "del_store"]
                    /\ UNCHANGED res
    /\ UNCHANGED <<mig, rows, blobs, nextUUID, clock, req, ctxDone, hist, uploads, cancels>>

\* DeleteStore that goes on to the row although the store delete failed
DeleteStore_IgnoresError(p) ==
    /\ pc[p] = "del_store"
    /\ \E fault \in FaultChoices :
        LET key == Only(loc[p].doc).storage_path
            out == StoreDelete(blobs, key, CallErr(p, fault, storeFail))
        IN  /\ blobs' = out.blobs
            /\ faults' = Faulted(p, fault)
            /\ Logged(p, Call("store.Delete", key, EmptyID,
                             CallErr(p, fault, storeFail), out.err))
            /\ pc' = [pc EXCEPT ![p] = "del_repo"]
            /\ UNCHANGED res
    /\ UNCHANGED <<mig, rows, nextUUID, clock, req, loc, ctxDone, hist, uploads, cancels>>

\* s.store.Delete(ctx, doc.StoragePath)
DeleteStore(p) ==
    /\ pc[p] = "del_store"
    /\ \E fault \in FaultChoices :
        LET key == Only(loc[p].doc).storage_path
            out == StoreDelete(blobs, key, CallErr(p, fault, storeFail))
            err == StorageDeleteFailed(out.err)
        IN  /\ blobs' = out.blobs
            /\ faults' = Faulted(p, fault)
            /\ Logged(p, Call("store.Delete", key, EmptyID,
                             CallErr(p, fault, storeFail), out.err))
            /\ IF out.err # NoErr
               THEN /\ Finish(p, req[p].via, [NoRes EXCEPT !.err = err],
                              DeleteDocumentResponse(err))
                    /\ hist' = [hist EXCEPT !.storeDeleteFailed = @ \cup {req[p].id}]
               ELSE /\ pc' = [pc EXCEPT ![p] = "del_repo"]
                    /\ UNCHANGED <<res, hist>>
    /\ UNCHANGED <<mig, rows, nextUUID, clock, req, loc, ctxDone, uploads, cancels>>

\* return s.repo.Delete(ctx, id)
DeleteRepo(p) ==
    /\ pc[p] = "del_repo"
    /\ \E fault \in FaultChoices :
        LET out == RepoDelete(rows, req[p].id, CallErr(p, fault, dbFail))
        IN  /\ rows' = out.rows
            /\ faults' = Faulted(p, fault)
            /\ Logged(p, Call("repo.Delete", NoKey, req[p].id,
                             CallErr(p, fault, dbFail), out.err))
            /\ Finish(p, req[p].via, [NoRes EXCEPT !.err = out.err],
                      DeleteDocumentResponse(out.err))
            /\ hist' = IF out.err # NoErr
                       THEN [hist EXCEPT !.blobGoneRowKept = @ \cup {req[p].id}]
                       ELSE [hist EXCEPT !.deletedOK = @ \cup {req[p].id}]
    /\ UNCHANGED <<mig, blobs, nextUUID, clock, req, loc, ctxDone, uploads, cancels>>

(***************************************************************************)
(* The caller.                                                             *)
(***************************************************************************)
\* the context of a running request is cancelled
Cancel(p) ==
    /\ pc[p] \notin {"idle", "done"}
    /\ ~ctxDone[p]
    /\ cancels < MaxCancels
    /\ cancels' = cancels + 1
    /\ ctxDone' = [ctxDone EXCEPT ![p] = TRUE]
    /\ UNCHANGED <<mig, rows, blobs, nextUUID, clock, pc, req, loc, calls, res,
                   uploads, faults, hist>>

\* the caller has its answer; the worker serves the next request
Return(p) ==
    /\ pc[p] = "done"
    /\ pc' = [pc EXCEPT ![p] = "idle"]
    /\ req' = [req EXCEPT ![p] = NoReq]
    /\ loc' = [loc EXCEPT ![p] = NoLoc]
    /\ calls' = [calls EXCEPT ![p] = <<>>]
    /\ res' = [res EXCEPT ![p] = NoRes]
    /\ ctxDone' = [ctxDone EXCEPT ![p] = FALSE]
    /\ UNCHANGED <<mig, rows, blobs, nextUUID, clock, uploads, faults, cancels, hist>>

Next ==
    \E p \in Workers :
        \/ UploadStart(p) \/ UploadPut(p) \/ UploadCreate(p) \/ UploadRollback(p)
        \/ ListStart(p) \/ ListCount(p) \/ ListPage(p)
        \/ GetStart(p) \/ GetFind(p)
        \/ DeleteStart(p) \/ DeleteFind(p) \/ DeleteStore(p) \/ DeleteRepo(p)
        \/ Cancel(p) \/ Return(p)

Spec == Init /\ [][Next]_vars

(***************************************************************************)
(* The same behaviours under the scheduling the runtime gives: a request   *)
(* that has started keeps taking its steps, and a client whose Delete left *)
(* a row without its blob keeps retrying that Delete.                      *)
(***************************************************************************)
\* a step of the request p is serving, up to handing back the answer
Step(p) ==
    \/ UploadPut(p) \/ UploadCreate(p) \/ UploadRollback(p)
    \/ ListCount(p) \/ ListPage(p)
    \/ GetFind(p)
    \/ DeleteFind(p) \/ DeleteStore(p) \/ DeleteRepo(p)
    \/ Return(p)

\* the row with this id is left without its blob by a failed Delete
RowStuck(id) ==
    /\ id \in hist.blobGoneRowKept
    /\ \E d \in rows : d.id = id /\ d.storage_path \notin blobs

\* DELETE /documents/{id} is sent again for such a row
RetryDelete ==
    \E p \in Workers :
        /\ DeleteStart(p)
        /\ req'[p].via = "http"
        /\ RowStuck(req'[p].id)

SpecRetry ==
    /\ Init /\ [][Next]_vars
    /\ \A p \in Workers : WF_vars(Step(p))
    /\ SF_vars(RetryDelete)

(***************************************************************************)
(* The service with a healthy store and repository, no cancellation and    *)
(* one request at a time: a sequence of ManyUploads uploads and any number *)
(* of other calls, so that several documents exist at a time.  The         *)
(* counters start where no fault and no cancellation is left to spend.     *)
(***************************************************************************)
InitMany ==
    /\ rows = {}
    /\ blobs = {}
    /\ nextUUID = 1
    /\ clock = 0
    /\ pc = [p \in Workers |-> "idle"]
    /\ req = [p \in Workers |-> NoReq]
    /\ loc = [p \in Workers |-> NoLoc]
    /\ ctxDone = [p \in Workers |-> FALSE]
    /\ calls = [p \in Workers |-> <<>>]
    /\ res = [p \in Workers |-> NoRes]
    /\ uploads = MaxUploads - ManyUploads
    /\ faults = MaxFaults
    /\ cancels = MaxCancels
    /\ hist = [deletedOK |-> {}, blobGoneRowKept |-> {},
               rollbackFailed |-> {}, persistFailed |-> {},
               storeDeleteFailed |-> {}]
    /\ mig = MigServing

NextMany ==
    \E p \in {1} :
        \/ UploadStart(p) \/ UploadPut(p) \/ UploadCreate(p)
        \/ ListStart(p) \/ ListCount(p) \/ ListPage(p)
        \/ GetStart(p) \/ GetFind(p)
        \/ DeleteStart(p) \/ DeleteFind(p) \/ DeleteStore(p) \/ DeleteRepo(p)
        \/ Return(p)

SpecMany == InitMany /\ [][NextMany]_vars

(***************************************************************************)
(* Startups of the process against a database that is empty at first:      *)
(* main calls EnsureMigrated before it serves, and exits when it fails.    *)
(***************************************************************************)
service == <<rows, blobs, nextUUID, clock, pc, req, loc, ctxDone, calls, res,
             uploads, faults, cancels, hist>>

InitMigrate ==
    /\ rows = {}
    /\ blobs = {}
    /\ nextUUID = 1
    /\ clock = 0
    /\ pc = [p \in Workers |-> "idle"]
    /\ req = [p \in Workers |-> NoReq]
    /\ loc = [p \in Workers |-> NoLoc]
    /\ ctxDone = [p \in Workers |-> FALSE]
    /\ calls = [p \in Workers |-> <<>>]
    /\ res = [p \in Workers |-> NoRes]
    /\ uploads = 0
    /\ faults = 0
    /\ cancels = 0
    /\ hist = [deletedOK |-> {}, blobGoneRowKept |-> {},
               rollbackFailed |-> {}, persistFailed |-> {},
               storeDeleteFailed |-> {}]
    /\ mig = NoMig

\* the process starts and calls EnsureMigrated
MigrateStart ==
    /\ mig.pc = "down"
    /\ mig.runs < MaxRuns
    /\ mig' = [mig EXCEPT !.pc = "check", !.runs = @ + 1, !.before = mig.schema,
                          !.next = 1, !.ran = <<>>, !.sentinel = "unknown",
                          !.err = NoErr]
    /\ UNCHANGED service

\* the sentinel query
MigrateCheck ==
    /\ mig.pc = "check"
    /\ \E e \in MigFailures \cup {NoErr} :
        mig' = IF e # NoErr
               THEN [mig EXCEPT !.pc = "failed", !.sentinel = "error",
                                !.err = SentinelCheckFailed(e)]
               ELSE IF SentinelExists(mig.schema)
               THEN [mig EXCEPT !.pc = "ok", !.sentinel = "present"]
               ELSE [mig EXCEPT !.pc = "steps", !.sentinel = "absent"]
    /\ UNCHANGED service

\* one turn of the loop over steps: db.ExecContext(ctx, step.SQL)
MigrateStep ==
    /\ mig.pc = "steps"
    /\ \E e \in MigFailures \cup {NoErr} :
        LET step == MigSteps[mig.next]
        IN  mig' = IF e # NoErr
                   THEN [mig EXCEPT !.pc = "failed", !.ran = Append(@, step),
                                    !.err = StepFailed(step, e)]
                   ELSE [mig EXCEPT !.schema = Applied(@, step),
                                    !.ran = Append(@, step),
                                    !.next = @ + 1,
                                    !.pc = IF mig.next = Len(MigSteps)
                                           THEN "ok" ELSE "steps"]
    /\ UNCHANGED service

\* the process ends: at once when EnsureMigrated failed, or after serving
MigrateExit ==
    /\ mig.pc \in {"ok", "failed"}
    /\ mig' = [mig EXCEPT !.pc = "down"]
    /\ UNCHANGED service

NextMigrate == MigrateStart \/ MigrateCheck \/ MigrateStep \/ MigrateExit

SpecMigrate == InitMigrate /\ [][NextMigrate]_vars

TypeOK ==
    /\ \A d \in rows : d.id \in 1..MaxUUID
    /\ nextUUID \in 1..(MaxUUID + 1)
    /\ faults \in 0..MaxFaults

(***************************************************************************)
(* Properties.                                                             *)
(***************************************************************************)
\* no request is in flight
Quiescent == \A p \in Workers : pc[p] \in {"idle", "done"}

HasBlob(d) == d.storage_path \in blobs
HasRow(key) == \E d \in rows : d.storage_path = key

\* p has returned from op
Returned(p, op) == pc[p] = "done" /\ req[p].op = op /\ res[p].invoked

\* p's Upload went through put, create and rollback
RolledBack(p) ==
    /\ Returned(p, "Upload")
    /\ Len(calls[p]) = 3
    /\ calls[p][3].fn = "store.Delete"

\* C1 as stated: in a state where no Upload is rolling back, every row has
\* its blob, unless a rollback failed for that key.
C1_RowNeverWithoutBlob ==
    Quiescent =>
        \A d \in rows : HasBlob(d) \/ d.storage_path \in hist.rollbackFailed

\* C1, amended: a row is without its blob only while a Delete of its id is
\* between its store delete and its row delete, or after a Delete of its id
\* whose row delete failed once the blob was removed.  Upload, Get and List
\* never leave such a row, whatever fails.
C1_RowWithoutBlobOnlyByDelete ==
    \A d \in rows :
        \/ HasBlob(d)
        \/ \E p \in Workers : pc[p] = "del_repo" /\ req[p].id = d.id
        \/ d.id \in hist.blobGoneRowKept

\* a Delete failed and the row it was to remove still has its blob
C1_Witness ==
    \E p \in Workers :
        /\ Returned(p, "Delete")
        /\ res[p].err # NoErr
        /\ \E d \in rows : d.id = req[p].id /\ HasBlob(d)

\* C2 as stated: when no operation is in flight, a blob is without a row
\* only after a RollbackFailed, and a row exists if and only if its blob does.
C2_RowIffBlob ==
    Quiescent =>
        /\ \A k \in blobs : HasRow(k) \/ k \in hist.rollbackFailed
        /\ \A d \in rows : HasBlob(d)

\* C2, amended: when no operation is in flight, a blob is without a row only
\* if an Upload returned RollbackFailed for its key, and a row is without
\* its blob only if a Delete of its id removed the blob and then failed in
\* the repository delete.
C2_OrphansOnlyByFailedSecondStep ==
    Quiescent =>
        /\ \A k \in blobs : HasRow(k) \/ k \in hist.rollbackFailed
        /\ \A d \in rows : HasBlob(d) \/ d.id \in hist.blobGoneRowKept

\* an Upload returned RollbackFailed and its blob is left without a row
C2_Witness ==
    /\ Quiescent
    /\ \E p \in Workers :
        /\ RolledBack(p)
        /\ calls[p][3].err # NoErr
        /\ loc[p].key \in blobs
        /\ ~HasRow(loc[p].key)

\* the documents a Get or a List handed to its caller
Shown(p) ==
    IF pc[p] = "done" /\ req[p].op \in {"Get", "List"}
    THEN res[p].doc \cup {res[p].items[i] : i \in 1..Len(res[p].items)}
    ELSE {}

\* C3: when the create fails and the rollback delete succeeds, the delete was
\* issued for the key given to put, the store no longer holds that key, and
\* from then on no row, no Get and no List shows the failed document.
C3_RollbackRemovesAllTrace ==
    /\ \A p \in Workers :
        RolledBack(p) /\ calls[p][3].err = NoErr =>
            /\ calls[p][1].fn = "store.Put"
            /\ calls[p][3].key = calls[p][1].key
            /\ calls[p][1].key \notin blobs
            /\ loc[p].doc \subseteq hist.persistFailed
    /\ \A d \in hist.persistFailed :
        /\ d.storage_path \notin blobs
        /\ \A r \in rows : r.id # d.id /\ r.storage_path # d.storage_path
        /\ \A q \in Workers : \A s \in Shown(q) : s.id # d.id

\* after a rolled-back Upload, a Get of the failed document's id has run
C3_Witness ==
    \E d \in hist.persistFailed : \E q \in Workers :
        /\ Returned(q, "Get")
        /\ req[q].id = d.id
        /\ res[q].err = ErrNotFound

\* the i-th call of p was fn
Was(p, i, fn) == i \in 1..Len(calls[p]) /\ calls[p][i].fn = fn

\* every call p made went through: no fault, no cancelled context
Clean(p) == \A i \in 1..Len(calls[p]) : calls[p][i].transport = NoErr

\* C4: Delete calls the store delete before the repository delete, and the
\* repository delete only after the store delete returned success; when the
\* store delete fails, the repository delete is not called and the row stays,
\* so that Get(id) still finds the document (unless another Delete of the
\* same id has removed it).
C4_StoreDeleteBeforeRowDelete ==
    \A p \in Workers :
        req[p].op = "Delete" =>
            /\ \A i \in 1..Len(calls[p]) :
                Was(p, i, "repo.Delete") =>
                    \E j \in 1..(i - 1) :
                        Was(p, j, "store.Delete") /\ calls[p][j].err = NoErr
            /\ \A j \in 1..Len(calls[p]) :
                Was(p, j, "store.Delete") /\ calls[p][j].err # NoErr =>
                    /\ pc[p] = "done"
                    /\ res[p].err # NoErr
                    /\ \A i \in 1..Len(calls[p]) : ~Was(p, i, "repo.Delete")
                    /\ req[p].id \notin hist.deletedOK =>
                        /\ loc[p].doc \subseteq rows
                        /\ RepoFindByID(rows, req[p].id, NoErr).doc = loc[p].doc
                        /\ LookupErr(RepoFindByID(rows, req[p].id, NoErr).err) = NoErr

\* a Delete's store delete failed and the row is still there
C4_Witness ==
    \E p \in Workers :
        /\ Returned(p, "Delete")
        /\ Was(p, 2, "store.Delete")
        /\ calls[p][2].err # NoErr
        /\ loc[p].doc # {}
        /\ loc[p].doc \subseteq rows

\* C5: two Deletes of the same id that run at the same time and whose calls
\* all go through (the store treating the delete of an absent key as success)
\* each return success or NotFound, never a storage or repository error, and
\* once both have returned neither the row nor the blob exists.
C5_ConcurrentDeletesSafe ==
    \A p, q \in Workers :
        /\ p # q
        /\ Returned(p, "Delete") /\ Returned(q, "Delete")
        /\ req[p].id = req[q].id
        /\ UuidParseOK(req[p].id)
        /\ Clean(p) /\ Clean(q)
        => /\ res[p].err \in {NoErr, ErrNotFound}
           /\ \A d \in rows : d.id # req[p].id
           /\ \A d \in loc[p].doc \cup loc[q].doc : ~HasBlob(d)

\* both Deletes found the row, so both ran their store delete and row delete
C5_Witness ==
    \E p, q \in Workers :
        /\ p # q
        /\ Returned(p, "Delete") /\ Returned(q, "Delete")
        /\ req[p].id = req[q].id
        /\ Clean(p) /\ Clean(q)
        /\ Len(calls[p]) = 3 /\ Len(calls[q]) = 3
        /\ res[p].err = NoErr /\ res[q].err = NoErr

\* C6: GET and DELETE /documents/{id} with a well-formed id answer 404 when
\* the document service reports NotFound.
C6_NotFoundIs404 ==
    \A p \in Workers :
        /\ pc[p] = "done"
        /\ req[p].via = "http"
        /\ req[p].op \in {"Get", "Delete"}
        /\ UuidParseOK(req[p].id)
        /\ ErrorsIs(res[p].err, ErrNotFound)
        => res[p].http.status = 404

\* C7: when the context is cancelled after the put, so that the create fails
\* with the cancellation, the rollback delete is not cancelled with it:
\* unless the store itself fails, the blob is removed.
C7_RollbackSurvivesCancel ==
    \A p \in Workers :
        /\ RolledBack(p)
        /\ calls[p][1].err = NoErr
        /\ calls[p][2].transport = ctxCanceled
        /\ calls[p][3].transport # storeFail
        => /\ calls[p][3].transport = NoErr
           /\ loc[p].key \notin blobs

\* C8: when the create fails, Upload returns no document; if the rollback
\* delete succeeds the error is MetadataPersistFailed and wraps the create
\* error; if it fails too the error is RollbackFailed, differs from the
\* MetadataPersistFailed of the same create error, and carries the texts of
\* both the create error and the delete error.
C8_CreateFailureErrors ==
    \A p \in Workers :
        RolledBack(p) =>
            LET createErr == calls[p][2].err
                delErr == calls[p][3].err
                err == res[p].err
            IN  /\ Was(p, 2, "repo.Create")
                /\ createErr # NoErr
                /\ res[p].doc = {}
                /\ err # NoErr
                /\ Mentions(err, <<"db save failed: ">> \o createErr.msg)
                /\ IF delErr = NoErr
                   THEN /\ createErr.chain \subseteq err.chain
                        /\ ~Mentions(err, <<"; rollback delete failed: ">>)
                   ELSE /\ Mentions(err, <<"; rollback delete failed: ">> \o delErr.msg)
                        /\ err # MetadataPersistFailed(createErr)

\* an Upload returned RollbackFailed
C8_Witness ==
    \E p \in Workers :
        /\ RolledBack(p)
        /\ calls[p][3].err # NoErr
        /\ calls[p][2].err = dbFail

\* C9: when the put fails, Upload returns UploadFailed wrapping the store's
\* error and no document, calls neither the repository create nor the store
\* delete, and leaves no row and no blob of its own.
C9_PutFailureStopsUpload ==
    \A p \in Workers :
        req[p].op = "Upload" /\ Was(p, 1, "store.Put") /\ calls[p][1].err # NoErr =>
            /\ pc[p] = "done"
            /\ Len(calls[p]) = 1
            /\ res[p].doc = {}
            /\ Mentions(res[p].err, <<"upload to storage: ">> \o calls[p][1].err.msg)
            /\ calls[p][1].err.chain \subseteq res[p].err.chain
            /\ res[p].err.chain # {}
            /\ loc[p].key \notin blobs
            /\ \A d \in rows : d.filename # loc[p].genName

\* an Upload returned after its put failed
C9_Witness ==
    \E p \in Workers :
        /\ Returned(p, "Upload")
        /\ Was(p, 1, "store.Put")
        /\ calls[p][1].err = storeFail

\* C10: a Get or Delete of an id that begins after a Delete of that id has
\* returned success, and whose lookup goes through, returns NotFound after
\* the lookup alone; and a repository delete that goes through returns no
\* error, also when the row is already gone.
C10_DeleteIsIdempotent ==
    \A p \in Workers :
        /\ (/\ pc[p] = "done"
            /\ req[p].op \in {"Get", "Delete"}
            /\ loc[p].afterDelete
            /\ Clean(p))
           => /\ res[p].err = ErrNotFound
              /\ res[p].doc = {}
              /\ Len(calls[p]) = 1
              /\ Was(p, 1, "repo.FindByID")
        /\ \A i \in 1..Len(calls[p]) :
            Was(p, i, "repo.Delete") /\ calls[p][i].transport = NoErr =>
                calls[p][i].err = NoErr

\* after a successful Delete, a second Delete of the id returned NotFound
C10_Witness ==
    \E p \in Workers :
        /\ Returned(p, "Delete")
        /\ loc[p].afterDelete
        /\ res[p].err = ErrNotFound

\* the store delete of p's Delete, if it made one
StoreDeleteOf(p) == { calls[p][i] : i \in { j \in 1..Len(calls[p]) : Was(p, j, "store.Delete") } }
RepoDeleteOf(p) == { calls[p][i] : i \in { j \in 1..Len(calls[p]) : Was(p, j, "repo.Delete") } }

\* Delete, when its store delete fails, returns StorageDeleteFailed wrapping
\* the store's error, calls no repository delete and leaves the row as the
\* lookup found it
C11_StoreFailureKeepsRow ==
    \A p \in Workers :
        req[p].op = "Delete" =>
            \A c \in StoreDeleteOf(p) :
                c.err # NoErr =>
                    /\ pc[p] = "done"
                    /\ res[p].err = ErrorfW("delete storage: ", c.err)
                    /\ c.err.chain # {} /\ c.err.chain \subseteq res[p].err.chain
                    /\ RepoDeleteOf(p) = {}
                    /\ req[p].id \notin hist.deletedOK => loc[p].doc \subseteq rows

\* C11 as stated: when the store delete fails, Delete returns
\* StorageDeleteFailed wrapping the store's error and leaves the row as it
\* was; a later Delete of the same id whose store delete succeeds returns
\* success and removes both blob and row.
C11_RetryAfterStoreFailure ==
    /\ C11_StoreFailureKeepsRow
    /\ \A p \in Workers :
        /\ Returned(p, "Delete")
        /\ loc[p].afterStoreFail
        /\ \E c \in StoreDeleteOf(p) : c.err = NoErr
        => /\ res[p].err = NoErr
           /\ \A d \in rows : d.id # req[p].id
           /\ \A d \in loc[p].doc : ~HasBlob(d)

\* C11, amended: when the store delete fails, Delete returns
\* StorageDeleteFailed wrapping the store's error and leaves the row as it
\* was; a later Delete of the same id whose store delete and repository
\* delete both succeed returns success and removes both blob and row, while
\* one whose repository delete fails returns that error and keeps the row.
C11_RetryNeedsBothDeletes ==
    /\ C11_StoreFailureKeepsRow
    /\ \A p \in Workers :
        /\ Returned(p, "Delete")
        /\ loc[p].afterStoreFail
        /\ \E c \in StoreDeleteOf(p) : c.err = NoErr
        => /\ \A d \in loc[p].doc : ~HasBlob(d)
           /\ \A c \in RepoDeleteOf(p) :
                /\ res[p].err = c.err
                /\ c.err = NoErr => \A d \in rows : d.id # req[p].id
                /\ c.err # NoErr /\ req[p].id \notin hist.deletedOK =>
                       loc[p].doc \subseteq rows
           /\ RepoDeleteOf(p) # {}

\* a Delete whose store delete failed was retried and removed blob and row
C11_Witness ==
    \E p \in Workers :
        /\ Returned(p, "Delete")
        /\ loc[p].afterStoreFail
        /\ loc[p].doc # {}
        /\ res[p].err = NoErr
        /\ \A d \in loc[p].doc : d \notin rows /\ ~HasBlob(d)

\* C12: when the repository lookup reports that no row matches, Get and
\* Delete return ErrNotFound, which is not the repository's sql.ErrNoRows
\* and not a generic error, and no document; the lookup is the only
\* collaborator call, so Delete issues no store delete and no repository
\* delete.
C12_NoRowBecomesNotFound ==
    \A p \in Workers :
        /\ req[p].op \in {"Get", "Delete"}
        /\ Was(p, 1, "repo.FindByID")
        /\ ErrorsIs(calls[p][1].err, sqlErrNoRows)
        => /\ pc[p] = "done"
           /\ res[p].err = ErrNotFound
           /\ ErrorsIs(res[p].err, ErrNotFound)
           /\ ~ErrorsIs(res[p].err, sqlErrNoRows)
           /\ res[p].err \notin {dbFail, ctxCanceled, dbInvalidUUID}
           /\ res[p].doc = {}
           /\ Len(calls[p]) = 1
           /\ StoreDeleteOf(p) = {} /\ RepoDeleteOf(p) = {}

\* a Delete whose lookup found no row has returned, the stores holding a
\* document it did not touch
C12_Witness ==
    \E p \in Workers :
        /\ Returned(p, "Delete")
        /\ Was(p, 1, "repo.FindByID")
        /\ calls[p][1].err = sqlErrNoRows
        /\ rows # {} /\ blobs # {}

\* p's Upload returned a document
Uploaded(p) == Returned(p, "Upload") /\ res[p].err = NoErr /\ res[p].doc # {}

\* what the store answered to the put of p's Upload
Reported(p) == loc[p].info

\* C13: a successful Upload returns a document whose storage_path, size and
\* content type are the key, size and content type the store reported for
\* the put, and a Get of that document's id returns this document, with the
\* reported values, whatever size the caller declared.
C13_GetReturnsWhatStoreReported ==
    \A p \in Workers :
        Uploaded(p) =>
            LET d == Only(res[p].doc)
            IN  /\ Was(p, 1, "store.Put") /\ calls[p][1].err = NoErr
                /\ d.storage_path = Reported(p).Key
                /\ d.size = Reported(p).Size
                /\ d.content_type = Reported(p).ContentType
                /\ \A q \in Workers :
                    /\ Returned(q, "Get")
                    /\ req[q].id = d.id
                    /\ res[q].err = NoErr
                    => /\ res[q].doc = {d}
                       /\ Only(res[q].doc).storage_path = Reported(p).Key
                       /\ Only(res[q].doc).size = Reported(p).Size
                       /\ Only(res[q].doc).content_type = Reported(p).ContentType

\* Get returned the document of an Upload whose caller declared another
\* size than the store reported
C13_Witness ==
    \E p, q \in Workers :
        /\ Uploaded(p)
        /\ req[p].size # Reported(p).Size
        /\ Returned(q, "Get")
        /\ res[q].doc = res[p].doc
        /\ Only(res[q].doc).size = Reported(p).Size

\* the documents persisted or about to be: the rows and what the Uploads in
\* flight have built
Built == rows \cup UNION { loc[p].doc : p \in { q \in Workers : req[q].op = "Upload" } }

\* C14: no two persisted documents share an id or a storage_path, the id of
\* a document deleted earlier is not the id of any document persisted or
\* built later, and a document's id is not the token of its filename (nor
\* of any other document's filename).
C14_IdsAndPathsUnique ==
    /\ \A d, e \in Built :
        /\ d # e => d.id # e.id /\ d.storage_path # e.storage_path
        /\ d.id # e.filename.token
    /\ \A d \in rows : d.id \notin hist.deletedOK
    /\ \A p \in Workers : \A d \in loc[p].doc :
        pc[p] = "up_create" => d.id \notin hist.deletedOK

\* two documents are persisted after an earlier one was deleted
C14_Witness ==
    /\ Cardinality(rows) = 2
    /\ hist.deletedOK # {}

\* the repository query of p's List: PageQuery{Limit, Offset}
PageQuery(p) == <<loc[p].limit, loc[p].offset>>

\* C15: List queries the repository with limit 10 in place of a limit <= 0
\* and any other limit unchanged, however large, and with offset 0 in place
\* of a negative offset and any other offset unchanged; its result is the
\* repository's answer to that query, so List(0, -5) has the query and the
\* result of List(10, 0).
C15_ListNormalisesPage ==
    \A p \in Workers :
        req[p].op = "List" =>
            LET limit == IF req[p].limit <= 0 THEN 10 ELSE req[p].limit
                offset == IF req[p].offset < 0 THEN 0 ELSE req[p].offset
            IN  /\ PageQuery(p) = <<limit, offset>>
                /\ <<req[p].limit, req[p].offset>> = <<0, -5>> => PageQuery(p) = <<10, 0>>
                /\ pc[p] = "done" =>
                    /\ res[p].err = NoErr
                    /\ res[p].total = Cardinality(rows)
                    /\ res[p].items = RepoPage(rows, limit, offset, NoErr).items
                    /\ <<req[p].limit, req[p].offset>> = <<0, -5>> =>
                           res[p].items = RepoPage(rows, 10, 0, NoErr).items

\* List(0, -5) returned all of several documents
C15_Witness ==
    \E p \in Workers :
        /\ Returned(p, "List")
        /\ <<req[p].limit, req[p].offset>> = <<0, -5>>
        /\ Len(res[p].items) = Cardinality(rows)
        /\ Cardinality(rows) > 1

\* p is called with the empty id: documentService.Get("") or Delete("")
EmptyIdCall(p) ==
    /\ pc[p] = "idle"
    /\ req'[p].op \in {"Get", "Delete"}
    /\ req'[p].id = EmptyID
    /\ req'[p].via = "svc"

\* C16: Get("") and Delete("") return ErrIDRequired (and Get no document)
\* at once: no repository lookup, store delete or repository delete is
\* issued, and rows and blobs are what they were.
C16_EmptyIdRejectedFirst ==
    [][\A p \in Workers :
        EmptyIdCall(p) =>
            /\ pc'[p] = "done"
            /\ res'[p].invoked
            /\ res'[p].err = ErrIDRequired
            /\ res'[p].doc = {}
            /\ calls'[p] = <<>>
            /\ calls' = calls
            /\ rows' = rows /\ blobs' = blobs]_vars

\* Delete("") has returned ErrIDRequired while a document is stored
C16_Witness ==
    \E p \in Workers :
        /\ Returned(p, "Delete")
        /\ req[p].id = EmptyID
        /\ res[p].err = ErrIDRequired
        /\ calls[p] = <<>>
        /\ rows # {} /\ blobs # {}

\* p is called with no content stream: documentService.Upload(ctx, nil, ...)
NilReaderCall(p) ==
    /\ pc[p] = "idle"
    /\ req'[p].op = "Upload"
    /\ req'[p].reader = NilReader
    /\ req'[p].via = "svc"

\* C17: Upload with a nil reader returns ErrReaderNil and no document at
\* once: no store put and no repository create is issued, no UUID is drawn,
\* and rows and blobs are what they were.
C17_NilReaderRejectedFirst ==
    [][\A p \in Workers :
        NilReaderCall(p) =>
            /\ pc'[p] = "done"
            /\ res'[p].invoked
            /\ res'[p].err = ErrReaderNil
            /\ res'[p].doc = {}
            /\ calls'[p] = <<>>
            /\ calls' = calls
            /\ nextUUID' = nextUUID
            /\ rows' = rows /\ blobs' = blobs]_vars

\* Upload with a nil reader has returned ErrReaderNil while a document is
\* stored
C17_Witness ==
    \E p \in Workers :
        /\ Returned(p, "Upload")
        /\ req[p].reader = NilReader
        /\ res[p].err = ErrReaderNil
        /\ calls[p] = <<>>
        /\ rows # {} /\ blobs # {}

\* the number of calls of fn that p has made
Count(p, fn) == Cardinality({ i \in 1..Len(calls[p]) : calls[p][i].fn = fn })

\* C18: the service makes no call twice.  An Upload makes at most one store
\* put, one repository create and one store delete, the delete only after
\* its create failed; a Delete at most one lookup, one store delete and one
\* repository delete; a Get that passed the id check exactly one lookup and
\* nothing else; a List one repository List and nothing else.
C18_NoRetries ==
    \A p \in Workers :
        /\ req[p].op = "Upload" =>
            /\ Count(p, "store.Put") <= 1
            /\ Count(p, "repo.Create") <= 1
            /\ Count(p, "store.Delete") <= 1
            /\ Len(calls[p]) =
                   Count(p, "store.Put") + Count(p, "repo.Create") + Count(p, "store.Delete")
            /\ \A i \in 1..Len(calls[p]) :
                Was(p, i, "store.Delete") =>
                    \E j \in 1..(i - 1) :
                        Was(p, j, "repo.Create") /\ calls[p][j].err # NoErr
        /\ req[p].op = "Delete" =>
            /\ Count(p, "repo.FindByID") <= 1
            /\ Count(p, "store.Delete") <= 1
            /\ Count(p, "repo.Delete") <= 1
            /\ Len(calls[p]) =
                   Count(p, "repo.FindByID") + Count(p, "store.Delete") + Count(p, "repo.Delete")
        /\ req[p].op = "Get" =>
            /\ Len(calls[p]) <= 1
            /\ Len(calls[p]) = Count(p, "repo.FindByID")
            /\ pc[p] = "done" /\ res[p].invoked /\ ~IDMissing(req[p].id) =>
                   Len(calls[p]) = 1
        /\ req[p].op = "List" =>
            /\ Len(calls[p]) <= 1
            /\ Len(calls[p]) = Count(p, "repo.List")
            /\ pc[p] = "done" => Len(calls[p]) = 1

\* an Upload made its three calls and a Delete returned after a call of
\* its own failed
C18_Witness ==
    \E p, q \in Workers :
        /\ RolledBack(p)
        /\ Returned(q, "Delete")
        /\ res[q].err # NoErr
        /\ \E i \in 1..Len(calls[q]) : calls[q][i].transport # NoErr

\* the response the handler of op writes when its service call returned err
HandlerResponse(op, err) ==
    CASE op = "Get" -> GetDocumentResponse(err)
      [] op = "Delete" -> DeleteDocumentResponse(err)
      [] op = "Upload" -> UploadDocumentResponse(err)
      [] OTHER -> ListDocumentsResponse(err)

MalformedIdRequest(p) ==
    /\ pc[p] = "idle"
    /\ req'[p].op \in {"Get", "Delete"}
    /\ req'[p].via = "http"
    /\ req'[p].id \in {EmptyID, BadID}

\* C20: GET and DELETE /documents/{id} with an id that is no well-formed
\* UUID answer 400 INVALID_ID without calling the document service: no
\* collaborator call is made and rows and blobs are what they were.
C20_MalformedIdIs400 ==
    [][\A p \in Workers :
        MalformedIdRequest(p) =>
            /\ pc'[p] = "done"
            /\ res'[p].http.status = 400
            /\ res'[p].http.code = "INVALID_ID"
            /\ ~res'[p].invoked
            /\ res'[p].err = NoErr /\ res'[p].doc = {}
            /\ calls' = calls
            /\ rows' = rows /\ blobs' = blobs]_vars

\* DELETE with a malformed id was answered 400 while a document is stored
C20_Witness ==
    \E p \in Workers :
        /\ pc[p] = "done"
        /\ req[p].op = "Delete" /\ req[p].via = "http" /\ req[p].id = BadID
        /\ res[p].http = InvalidID
        /\ ~res[p].invoked
        /\ rows # {} /\ blobs # {}

\* the last collaborator call p made
LastCall(p) == calls[p][Len(calls[p])]

\* C21: when the repository List fails, List returns exactly that error and
\* no result; when the repository lookup fails with anything but the no-row
\* condition, Get returns exactly that error and no document.  The error is
\* neither ErrNotFound nor nil.
C21_RepositoryErrorsUnchanged ==
    \A p \in Workers :
        /\ req[p].op = "List" /\ Was(p, 1, "repo.List") /\ LastCall(p).err # NoErr =>
            /\ pc[p] = "done"
            /\ res[p].err = LastCall(p).err
            /\ res[p].err = LastCall(p).transport
            /\ res[p].err \notin {NoErr, ErrNotFound}
            /\ res[p].items = <<>> /\ res[p].total = 0
        /\ (/\ req[p].op = "Get" /\ Was(p, 1, "repo.FindByID")
            /\ calls[p][1].err # NoErr
            /\ ~ErrorsIs(calls[p][1].err, sqlErrNoRows)) =>
            /\ pc[p] = "done"
            /\ res[p].err = calls[p][1].err
            /\ res[p].err \notin {NoErr, ErrNotFound}
            /\ ~ErrorsIs(res[p].err, ErrNotFound)
            /\ res[p].doc = {}

\* a Get of a stored document and a List have both returned the error of
\* their repository call
C21_Witness ==
    \E p, q \in Workers :
        /\ Returned(p, "Get") /\ Returned(q, "List")
        /\ calls[p] # <<>> /\ calls[q] # <<>>
        /\ res[p].err \in {dbFail, ctxCanceled}
        /\ res[q].err \in {dbFail, ctxCanceled}
        /\ \E d \in rows : d.id = req[p].id

\* EnsureMigrated has returned (and the process may have ended since)
MigReturned == mig.pc \in {"ok", "failed"} \/ (mig.pc = "down" /\ mig.runs > 0)

\* C22: EnsureMigrated executes steps only when the documents table was
\* absent at its start; the steps it has executed are the first steps in
\* their declared order; a failing step is the last one executed and its
\* error is returned; with the table present, or with a failed sentinel
\* check, no step is executed, and the result is success and an error
\* respectively.
C22_StepsOnlyWithoutSentinel ==
    /\ Len(mig.ran) <= Len(MigSteps)
    /\ \A i \in 1..Len(mig.ran) : mig.ran[i] = MigSteps[i]
    /\ mig.ran # <<>> => "create_table_documents" \notin mig.before
    /\ mig.sentinel \in {"present", "error", "unknown"} => mig.ran = <<>>
    /\ (mig.sentinel = "present") =
           (mig.sentinel \notin {"error", "unknown"}
            /\ "create_table_documents" \in mig.before)
    /\ mig.sentinel = "present" => mig.err = NoErr /\ mig.pc \in {"ok", "down"}
    /\ mig.sentinel = "error" =>
           /\ mig.pc \in {"failed", "down"}
           /\ mig.err # NoErr
           /\ Mentions(mig.err, <<"failed to check sentinel table: ">>)
           /\ mig.schema = mig.before
    /\ mig.sentinel = "absent" /\ mig.err # NoErr =>
           /\ mig.pc \in {"failed", "down"}
           /\ mig.ran # <<>>
           /\ Mentions(mig.err, <<"migration step ", mig.ran[Len(mig.ran)], " failed: ">>)
           /\ mig.err.chain # {}
           /\ mig.schema = mig.before \cup { mig.ran[i] : i \in 1..(Len(mig.ran) - 1) }
    /\ mig.sentinel = "absent" /\ mig.err = NoErr /\ MigReturned =>
           mig.ran = MigSteps /\ mig.schema = AllSteps

\* a startup failed at the second step and executed no further step
C22_Witness ==
    /\ mig.pc = "failed"
    /\ mig.ran = SubSeq(MigSteps, 1, 2)
    /\ mig.schema = {MigSteps[1]}

\* C25: whenever EnsureMigrated has returned success, on the first startup
\* or on a later one, the database holds what every migration step creates:
\* the extension, the documents table and the three indexes.
C25_SuccessMeansMigrated ==
    mig.pc = "ok" => mig.schema = AllSteps

\* file names of up to three characters
SampleNames ==
    UNION { [1..n -> {"a", ".", "/"}] : n \in 0..3 }

\* e is the extension of name: the empty text when the last path element
\* has no dot, else the suffix of name that begins at its last dot
IsExtensionOf(e, name) ==
    LET n == Len(name)
        dots == { i \in 1..n : name[i] = "." /\ \A j \in i..n : name[j] # "/" }
    IN  IF dots = {} THEN e = <<>>
        ELSE \E i \in dots :
                /\ \A j \in dots : j <= i
                /\ e = SubSeq(name, i, n)

\* C23: the key given to the store put is "documents/" followed by the
\* generated filename; the generated filename is a token no other document
\* has, followed by the extension of the original filename (possibly
\* empty); the document built and persisted carries the generated name as
\* its filename, and the original filename travels only in the metadata of
\* the put.
C23_KeyFromGeneratedName ==
    /\ \A name \in SampleNames \cup OrigNames : IsExtensionOf(Ext(name), name)
    /\ \A p \in Workers :
        req[p].op = "Upload" /\ (pc[p] # "done" \/ calls[p] # <<>>) =>
            /\ loc[p].key = [dir |-> "documents", name |-> loc[p].genName]
            /\ IsExtensionOf(loc[p].genName.ext, req[p].name)
            /\ loc[p].genName.token \in 1..(nextUUID - 1)
            /\ \A d \in rows :
                d.filename.token = loc[p].genName.token => d \in res[p].doc
            /\ \A q \in Workers \ {p} :
                req[q].op = "Upload" => loc[q].genName.token # loc[p].genName.token
            /\ Was(p, 1, "store.Put") => calls[p][1].key = loc[p].key
            /\ PutOptions(req[p]).Metadata = [original_filename |-> req[p].name]
            /\ \A d \in loc[p].doc \cup res[p].doc :
                /\ d.filename = loc[p].genName
                /\ d.storage_path = loc[p].key
                /\ DOMAIN d.filename = {"token", "ext"}

\* an Upload of "a.t" has returned its document while another is stored
C23_Witness ==
    \E p \in Workers :
        /\ Uploaded(p)
        /\ req[p].name = <<"a", ".", "t">>
        /\ Only(res[p].doc).filename.ext = <<".", "t">>
        /\ Cardinality(rows) > 1
        /\ \E d \in rows : d.filename.ext = <<>>

\* tables of up to three documents
SampleTables ==
    SUBSET { Document(i, GenName(i + 3, <<>>), StorageKey(GenName(i + 3, <<>>)),
                      5, "text/plain", 1) : i \in 1..3 }

\* the repository Delete on any table: with the statement going through it
\* succeeds whether or not a row has the id, removes the rows with the id
\* and no other; with the statement failing it returns that failure and
\* removes nothing
RepoDeleteTolerant ==
    \A r \in SampleTables : \A id \in 1..4 :
        /\ RepoDelete(r, id, NoErr).err = NoErr
        /\ RepoDelete(r, id, NoErr).rows \subseteq r
        /\ \A d \in r : d \in RepoDelete(r, id, NoErr).rows <=> d.id # id
        /\ \A e \in {dbFail, ctxCanceled} : RepoDelete(r, id, e) = [rows |-> r, err |-> e]

\* C24: the repository Delete returns success when it removed the row with
\* the id and when no row had the id, fails only when the statement itself
\* fails (and then removes nothing), and never removes a row with another
\* id; so it is for the repository delete each Delete of the service makes.
C24_RepoDeleteTolerant ==
    [][/\ RepoDeleteTolerant
       /\ \A p \in Workers :
            pc[p] = "del_repo" /\ pc'[p] = "done" =>
                LET c == calls'[p][Len(calls'[p])]
                IN  /\ c.fn = "repo.Delete" /\ c.id = req[p].id
                    /\ c.err = c.transport
                    /\ res'[p].err = c.err
                    /\ c.err = NoErr => rows' = { d \in rows : d.id # c.id }
                    /\ c.err # NoErr => rows' = rows]_vars

\* two repository deletes of one id both went through and returned success:
\* one removed the row, the other found none
C24_Witness ==
    \E p \in Workers : \E q \in Workers \ {p} :
        /\ Returned(p, "Delete") /\ Returned(q, "Delete")
        /\ req[q].id = req[p].id
        /\ Was(p, 3, "repo.Delete") /\ calls[p][3].err = NoErr
        /\ Was(q, 3, "repo.Delete") /\ calls[q][3].err = NoErr
        /\ \A d \in rows : d.id # req[p].id

\* C26, in a state: a Delete whose store delete succeeded and whose
\* repository delete failed has returned the repository's error as it is,
\* and a Delete of an id left so, all of whose calls go through, has
\* returned success (or NotFound, another retry having removed the row)
\* with neither the row nor the blob left.
RetryAfterRowKept ==
    \A p \in Workers :
        Returned(p, "Delete") =>
            /\ (\E c \in StoreDeleteOf(p) : c.err = NoErr)
               /\ (\E c \in RepoDeleteOf(p) : c.err # NoErr)
               => /\ \A c \in RepoDeleteOf(p) : res[p].err = c.err
                  /\ req[p].id \in hist.blobGoneRowKept
            /\ Clean(p) /\ loc[p].afterRowKept
               => /\ res[p].err \in {NoErr, ErrNotFound}
                  /\ \A d \in rows : d.id # req[p].id
                  /\ \A d \in loc[p].doc : ~HasBlob(d)

\* C26: when Delete has removed the blob and its repository delete fails,
\* it returns the repository error; a retry whose calls go through removes
\* the row, the store delete of the absent key succeeding; and with the
\* Delete repeated, the row left without its blob is eventually gone.
C26_RepeatedDeleteConverges ==
    /\ []RetryAfterRowKept
    /\ \A id \in 1..MaxUUID :
        RowStuck(id) ~> (\A d \in rows : d.id # id)

\* the retry of a Delete that had left the row without its blob made its
\* three calls and returned success
C26_Witness ==
    \E p \in Workers :
        /\ Returned(p, "Delete")
        /\ Clean(p)
        /\ loc[p].afterRowKept
        /\ Len(calls[p]) = 3
        /\ res[p].err = NoErr
        /\ rows = {} /\ blobs = {}

\* the number of items a page of a table of total rows holds
PageSize(total, limit, offset) ==
    IF total <= offset THEN 0 ELSE Min(limit, total - offset)

\* C27: the total and the items of a List result describe one table: the
\* items are as many as the page of a table of total rows holds, so with
\* offset 0 and limit at least total there are total items.
C27_TotalMatchesItems ==
    \A p \in Workers :
        Returned(p, "List") /\ res[p].err = NoErr =>
            /\ Len(res[p].items) = PageSize(res[p].total, loc[p].limit, loc[p].offset)
            /\ loc[p].offset = 0 /\ loc[p].limit >= res[p].total =>
                   Len(res[p].items) = res[p].total

\* a Delete has removed, or is about to have removed, the blob of d
BlobDeleted(d) ==
    \/ d.id \in hist.deletedOK \cup hist.blobGoneRowKept
    \/ \E p \in Workers :
        /\ req[p].op = "Delete" /\ req[p].id = d.id
        /\ \E c \in StoreDeleteOf(p) : c.err = NoErr

\* C28: while Uploads, Gets and Lists interleave, every document a Get or a
\* List has returned, and every row, has its blob in the store, unless a
\* Delete has removed that blob: the row is created only after the put has
\* succeeded.
C28_VisibleOnlyAfterPut ==
    /\ \A q \in Workers : \A d \in Shown(q) : BlobDeleted(d) \/ HasBlob(d)
    /\ \A d \in rows : BlobDeleted(d) \/ HasBlob(d)
    /\ \A p \in Workers :
        req[p].op = "Upload" /\ Was(p, 2, "repo.Create") =>
            Was(p, 1, "store.Put") /\ calls[p][1].err = NoErr

\* a List has returned a document while no Delete has touched it
C28_Witness ==
    \E q \in Workers :
        /\ Returned(q, "List")
        /\ res[q].items # <<>>
        /\ \A d \in Shown(q) : ~BlobDeleted(d) /\ HasBlob(d)

\* p takes a step of a Get or a List: its start or one of its repository
\* calls
ReadStep(p) ==
    \/ pc[p] = "idle" /\ req'[p].op \in {"Get", "List"}
    \/ pc[p] \in {"get_find", "list_count", "list_page"} /\ pc'[p] # pc[p]

\* C29: no step of a Get or a List changes the rows or the blobs, whether
\* it succeeds or fails, and the only collaborator calls they make are the
\* repository lookup and the repository List.
C29_ReadsChangeNothing ==
    [][\A p \in Workers :
        ReadStep(p) =>
            /\ rows' = rows
            /\ blobs' = blobs
            /\ \A i \in 1..Len(calls'[p]) :
                calls'[p][i].fn \in {"repo.FindByID", "repo.List"}]_vars

\* a Get that found its document and a List have returned, the stores
\* holding the document
C29_Witness ==
    \E p, q \in Workers :
        /\ Returned(p, "Get") /\ res[p].doc # {} /\ res[p].doc \subseteq rows
        /\ Returned(q, "List") /\ res[q].items # <<>>
        /\ blobs # {}

\* the request id middleware.RequestID gave the request p is serving
RequestID(p) == p

\* the errorPayload p's handler wrote
ErrorBody(p) ==
    [request_id |-> RequestID(p),
     error |-> [code |-> res[p].http.code, message |-> res[p].http.message]]

\* p's request was answered with an error response
Failed(p) == pc[p] = "done" /\ req[p].via = "http" /\ res[p].http.status >= 400

\* the error classes of the document endpoints: status, code, message
ErrorClasses ==
    { <<400, "INVALID_ID", "invalid id format">>,
      <<400, "FILE_REQUIRED", "file is required">>,
      <<404, "NOT_FOUND", "document not found">>,
      <<500, "INTERNAL_ERROR", "internal server error">> }

\* C30: every error response carries the code and the message of one of the
\* fixed error classes and the id of its request, and nothing of the
\* service error; two error responses of one class have the same code and
\* message, whatever the service errors behind them.
C30_ErrorBodyFromClassOnly ==
    \A p \in Workers :
        Failed(p) =>
            /\ <<res[p].http.status, ErrorBody(p).error.code, ErrorBody(p).error.message>>
                   \in ErrorClasses
            /\ ErrorBody(p).request_id = RequestID(p)
            /\ \A i \in 1..Len(res[p].err.msg) :
                   ErrorBody(p).error.message # res[p].err.msg[i]
            /\ \A q \in Workers :
                Failed(q) /\ res[q].http.code = res[p].http.code =>
                    ErrorBody(q).error = ErrorBody(p).error

\* two requests failed with different service errors and were both answered
\* INTERNAL_ERROR
C30_Witness ==
    \E p, q \in Workers :
        /\ Failed(p) /\ Failed(q)
        /\ res[p].err # NoErr /\ res[q].err # NoErr
        /\ res[p].err # res[q].err
        /\ res[p].http.code = "INTERNAL_ERROR"
        /\ ErrorBody(p).error = ErrorBody(q).error

====
